---------------------------- MODULE Spec2Model ----------------------------
(***************************************************************************)
(* A model of deep_sort/application_util/visualization.py: the color       *)
(* assignment functions, the headless controller NoVisualization and the   *)
(* interactive controller Visualization (its _update_fun in online and     *)
(* offline mode, and its draw operations).                                 *)
(*                                                                         *)
(* One object is explored per behaviour; Init picks which (scenario):      *)
(*   "headless"  a NoVisualization on which run is called,                 *)
(*   "offline"   a Visualization(is_online = False) driven by the viewer,  *)
(*   "online"    a Visualization(is_online = True) driven by the viewer,   *)
(*   "drawing"   a Visualization on which the draw operations are called,  *)
(*   "coloring"  calls of the two color functions (ColorSpec).             *)
(* _update_fun only touches self.cap / the device (lines 103-122) and the  *)
(* draw operations only touch self.viewer (lines 127-149), so the two are  *)
(* explored apart.                                                         *)
(***************************************************************************)
EXTENDS Integers, Sequences, FiniteSets

(***************************************************************************)
(* Bounds of the exploration.                                              *)
(***************************************************************************)
\* longest offline source / headless source, in frames
MaxFrames == 4
\* largest frame rate a source reports
MaxFps == 3
\* viewer ticks given to the online mode (a live device never runs out)
MaxCalls == 3
\* callbacks with the frame of a failed read are counted up to here
MaxNull == 2
\* draw calls on a NoVisualization are counted up to here
MaxDraws == 2
\* longest list handed to a draw operation
MaxTracks == 2
\* largest tag handed to the color functions
MaxTag == 999

\* the frame value of a failed read (None)
NoFrame == -1

Min(a, b) == IF a <= b THEN a ELSE b

(***************************************************************************)
(* Color assignment, lines 7-53.  Floats are modelled as exact rationals:  *)
(* hue_step = 41/100, a hue is h/100, a channel is n/500.  The rounding of *)
(* IEEE doubles is not modelled: a double product that lands a rounding    *)
(* error below a whole number (tag * 0.41 for tag = 300 and 600, 255 * c   *)
(* for tag = 10, 40, 70, ...) truncates one lower than the exact value.    *)
(***************************************************************************)
\* the default hue_step 0.41, in hundredths
HueStepNum == 41
HueDen == 100
\* the denominator of a channel value: v = (5 - band)/5, f = fm/100
ChanDen == 500

\* a slip of line 7: a hue step of 0.4
Hue_Step40(tag) == (tag * 40) % HueDen

\* a slip of line 7: a hue step of 0.5
Hue_HalfStep(tag) == (tag * 50) % HueDen

\* line 27: h = (tag * hue_step) % 1, in hundredths
Hue(tag) == (tag * HueStepNum) % HueDen

\* a slip of line 27: five brightness bands
Band_Mod5(tag) == ((tag * HueStepNum) \div HueDen) % 5

\* a slip of line 27: two brightness bands
Band_Mod2(tag) == ((tag * HueStepNum) \div HueDen) % 2

\* line 27: int(tag * hue_step) % 4
Band(tag) == ((tag * HueStepNum) \div HueDen) % 4

\* line 27: v = 1. - band / 5., in fifths
ValueFifths(tag) == 5 - Band(tag)

\* colorsys.hsv_to_rgb(h, 1., v) with h = hh/100 and v = vf/5: channels in
\* 1/500.  i = int(h*6), f = h*6 - i, p = v*(1-s) = 0, q = v*(1-f), t = v*f.
hsv_to_rgb(hh, vf) ==
    LET i == ((6 * hh) \div HueDen) % 6
        fm == (6 * hh) % HueDen
        v == vf * HueDen
        p == 0
        q == vf * (HueDen - fm)
        t == vf * fm
    IN  CASE i = 0 -> <<v, t, p>>
          [] i = 1 -> <<q, v, p>>
          [] i = 2 -> <<p, v, t>>
          [] i = 3 -> <<p, q, v>>
          [] i = 4 -> <<t, p, v>>
          [] OTHER -> <<v, p, q>>

\* line 28: the saturation handed to hsv_to_rgb, 1.
Saturation == 1

\* line 28: the (h, s, v) handed to hsv_to_rgb: h in 1/100, v in 1/5
HsvOf(tag) == <<Hue(tag), Saturation, ValueFifths(tag)>>

\* lines 7-29: (r, g, b), each in 1/500
create_unique_color_float(tag) == hsv_to_rgb(Hue(tag), ValueFifths(tag))

\* a slip of line 53: round(255 * c)
ToUchar_Round(n) == (255 * n + ChanDen \div 2) \div ChanDen

\* line 53: int(255 * c), c = n/500 >= 0
ToUchar(n) == (255 * n) \div ChanDen

\* lines 32-53
create_unique_color_uchar(tag) ==
    LET c == create_unique_color_float(tag)
    IN  <<ToUchar(c[1]), ToUchar(c[2]), ToUchar(c[3])>>

(***************************************************************************)
(* str(track_id) for a non-negative integer: its decimal digits.           *)
(***************************************************************************)
Digit(d) == CASE d = 0 -> "0" [] d = 1 -> "1" [] d = 2 -> "2" [] d = 3 -> "3"
              [] d = 4 -> "4" [] d = 5 -> "5" [] d = 6 -> "6" [] d = 7 -> "7"
              [] d = 8 -> "8" [] OTHER -> "9"

RECURSIVE Str(_)
Str(n) == IF n < 10 THEN <<Digit(n)>> ELSE Append(Str(n \div 10), Digit(n % 10))

\* the label of an unlabeled rectangle (label=None)
NoLabel == <<>>

(***************************************************************************)
(* Boxes.  A coordinate is kept in tenths of a pixel; astype(np.int)       *)
(* truncates toward zero.                                                  *)
(***************************************************************************)
TruncCoord(x) == IF x >= 0 THEN 10 * (x \div 10) ELSE -(10 * ((-x) \div 10))

\* box.astype(np.int), lines 134 and 149
AsInt(box) == [k \in 1..4 |-> TruncCoord(box[k])]

\* the track ids handed to the draw operations
TrackIds == {1, 12}

\* the box (x, y, w, h) of the object with a given id, in tenths
BoxOf(i) == <<105 * i, 208 - 20 * i, 57, 60 + i>>

\* the boxes handed to the draw operations
Boxes == {BoxOf(i) : i \in TrackIds}

(***************************************************************************)
(* State.                                                                  *)
(***************************************************************************)
VARIABLES
    scenario,      \* which object and use is explored (see the head comment)
    nframes,       \* the capture source: frames 0 .. nframes-1
    pos,           \* the capture source's position (CAP_PROP_POS_FRAMES)
    fps,           \* self.fps, line 97
    pc,            \* where the controller's code stands
    ret,           \* the success flag of the last read (ret / success)
    frame,         \* the frame of the last read; NoFrame when it failed
    frameId,       \* the local frameId of _update_fun, line 117
    result,        \* what the last call returned: "none" (not yet), "True", "False"
    delivered,     \* frames the callback was invoked with after a good read
    nullCalls,     \* callbacks invoked with the frame of a failed read
    readLog,       \* source frames read successfully, in order
    trace,         \* the steps of the current _update_fun call
    opened,        \* device handles _update_fun has opened so far
    openHandles,   \* device handles open now
    drawCalls,     \* draw operations called on the NoVisualization
    color,         \* self.viewer.color
    thickness,     \* self.viewer.thickness
    image,         \* self.viewer.image
    lastOp,        \* the draw operation called last on the Visualization
    lastArgs,      \* its arguments
    strokes,       \* the viewer.rectangle calls it made, in order
    capUsed,       \* whether a method of the constructor's cap was called
    tag,           \* the tag the color functions are called with
    hsv,           \* the (h, s, v) last handed to colorsys.hsv_to_rgb
    rgb,           \* what create_unique_color_float returned last
    rgb8           \* what create_unique_color_uchar returned last

vars == <<scenario, nframes, pos, fps, pc, ret, frame, frameId, result,
          delivered, nullCalls, readLog, trace, opened, openHandles,
          drawCalls, color, thickness, image, lastOp, lastArgs, strokes,
          capUsed, tag, hsv, rgb, rgb8>>

capVars == <<nframes, pos, readLog, capUsed>>
colorVars == <<tag, hsv, rgb, rgb8>>
loopVars == <<pc, ret, frame, frameId, result, delivered, nullCalls, trace>>
deviceVars == <<opened, openHandles>>
viewerVars == <<color, thickness, image, lastOp, lastArgs, strokes>>

(***************************************************************************)
(* The capture source (cv2.VideoCapture over a file of nframes frames), as *)
(* the controllers use it: read() at a position below nframes succeeds,    *)
(* returns that frame and advances; at nframes it fails, returns None and  *)
(* leaves the position.                                                    *)
(***************************************************************************)
ReadOk == pos < nframes

ReadFrame == IF ReadOk THEN pos ELSE NoFrame

CapRead ==
    /\ ret' = ReadOk
    /\ frame' = ReadFrame
    /\ pos' = IF ReadOk THEN pos + 1 ELSE pos
    /\ readLog' = IF ReadOk THEN Append(readLog, pos) ELSE readLog
    /\ capUsed' = TRUE

\* frame_callback(self, frame): the call is recorded
InvokeCallback(f) ==
    /\ delivered' = IF f # NoFrame THEN Append(delivered, f) ELSE delivered
    /\ nullCalls' = IF f = NoFrame THEN Min(nullCalls + 1, MaxNull) ELSE nullCalls

(***************************************************************************)
(* Construction.  NoVisualization.__init__ (line 63) keeps the source;     *)
(* Visualization.__init__ (lines 90-98) sets viewer.thickness = 2 and      *)
(* fps = 1 if is_online else cap.get(CAP_PROP_FPS): only the offline       *)
(* constructor calls a method of cap.                                      *)
(***************************************************************************)
Init ==
    /\ scenario \in {"headless", "offline", "online", "drawing"}
    /\ nframes \in IF scenario \in {"headless", "offline"}
                   THEN 0..MaxFrames ELSE {MaxFrames}
    /\ fps \in IF scenario = "offline" THEN 0..MaxFps ELSE {1}
    /\ pos = 0
    /\ pc = "idle"
    /\ ret = TRUE
    /\ frame = NoFrame
    /\ frameId = 0
    /\ result = "none"
    /\ delivered = <<>>
    /\ nullCalls = 0
    /\ readLog = <<>>
    /\ trace = <<>>
    /\ opened = 0
    /\ openHandles = 0
    /\ drawCalls = 0
    /\ color = <<0, 0, 0>>
    /\ thickness = 2
    /\ image = 0
    /\ lastOp = "none"
    /\ lastArgs = <<>>
    /\ strokes = <<>>
    /\ capUsed = (scenario = "offline")
    /\ tag = 0
    /\ hsv = <<>>
    /\ rgb = <<>>
    /\ rgb8 = <<>>

(***************************************************************************)
(* NoVisualization, lines 56-82.                                           *)
(***************************************************************************)
\* run is called (for the first time, or again after it returned): enter the
\* while True loop, line 78
NoVis_run_Enter ==
    /\ scenario = "headless"
    /\ pc \in {"idle", "done"}
    /\ pc' = "h_read"
    /\ result' = "none"
    /\ UNCHANGED colorVars
    /\ UNCHANGED <<scenario, fps, ret, frame, frameId, delivered,
                   nullCalls, trace, drawCalls>>
    /\ UNCHANGED <<capVars, deviceVars, viewerVars>>

\* line 79: ret, frame = self._cap.read()
NoVis_run_Read ==
    /\ scenario = "headless"
    /\ pc = "h_read"
    /\ CapRead
    /\ pc' = "h_check"
    /\ UNCHANGED colorVars
    /\ UNCHANGED <<scenario, nframes, fps, frameId, result, delivered,
                   nullCalls, trace, drawCalls>>
    /\ UNCHANGED <<deviceVars, viewerVars>>

\* a slip of lines 80-81: a failed read is retried instead of ending the run
NoVis_run_Return_Retry ==
    /\ scenario = "headless"
    /\ pc = "h_check"
    /\ ~ret
    /\ pc' = "h_read"
    /\ UNCHANGED colorVars
    /\ UNCHANGED <<scenario, fps, ret, frame, frameId, result, delivered,
                   nullCalls, trace, drawCalls>>
    /\ UNCHANGED <<capVars, deviceVars, viewerVars>>

\* lines 80-81: if not ret: return False
NoVis_run_Return ==
    /\ scenario = "headless"
    /\ pc = "h_check"
    /\ ~ret
    /\ result' = "False"
    /\ pc' = "done"
    /\ UNCHANGED colorVars
    /\ UNCHANGED <<scenario, fps, ret, frame, frameId, delivered, nullCalls,
                   trace, drawCalls>>
    /\ UNCHANGED <<capVars, deviceVars, viewerVars>>

\* a slip of line 82: the callback is invoked without the test of ret
NoVis_run_Callback_NoCheck ==
    /\ scenario = "headless"
    /\ pc = "h_check"
    /\ InvokeCallback(frame)
    /\ pc' = "h_callback"
    /\ UNCHANGED colorVars
    /\ UNCHANGED <<scenario, fps, ret, frame, frameId, result, trace,
                   drawCalls>>
    /\ UNCHANGED <<capVars, deviceVars, viewerVars>>

\* line 82: frame_callback(self, frame) is entered
NoVis_run_Callback ==
    /\ scenario = "headless"
    /\ pc = "h_check"
    /\ ret
    /\ InvokeCallback(frame)
    /\ pc' = "h_callback"
    /\ UNCHANGED colorVars
    /\ UNCHANGED <<scenario, fps, ret, frame, frameId, result, trace,
                   drawCalls>>
    /\ UNCHANGED <<capVars, deviceVars, viewerVars>>

\* the callback returns; back to line 78
NoVis_run_Loop ==
    /\ scenario = "headless"
    /\ pc = "h_callback"
    /\ pc' = "h_read"
    /\ UNCHANGED colorVars
    /\ UNCHANGED <<scenario, fps, ret, frame, frameId, result, delivered,
                   nullCalls, trace, drawCalls>>
    /\ UNCHANGED <<capVars, deviceVars, viewerVars>>

\* a slip of lines 65-75: a draw operation that takes a frame off the source
NoVis_pass_Reads ==
    /\ scenario = "headless"
    /\ drawCalls < MaxDraws
    /\ drawCalls' = drawCalls + 1
    /\ pos' = IF ReadOk THEN pos + 1 ELSE pos
    /\ UNCHANGED colorVars
    /\ UNCHANGED <<scenario, fps, nframes, readLog, capUsed>>
    /\ UNCHANGED <<loopVars, deviceVars, viewerVars>>

\* the body of a NoVisualization draw operation: pass.  The call is counted.
NoVis_pass ==
    /\ scenario = "headless"
    /\ drawCalls < MaxDraws
    /\ drawCalls' = drawCalls + 1
    /\ UNCHANGED colorVars
    /\ UNCHANGED <<scenario, fps>>
    /\ UNCHANGED <<capVars, loopVars, deviceVars, viewerVars>>

\* lines 65-66
NoVis_set_image == NoVis_pass

\* lines 68-69
NoVis_draw_groundtruth == NoVis_pass

\* lines 71-72
NoVis_draw_detections == NoVis_pass

\* lines 74-75
NoVis_draw_trackers == NoVis_pass

(***************************************************************************)
(* The viewer's event loop (ImageViewer.run, image_viewer.py), entered by  *)
(* Visualization.run, lines 100-101: it calls the update function again    *)
(* and again and stops once it returns False.                              *)
(***************************************************************************)
\* Visualization.run is called (for the first time, or again after the
\* viewer stopped): the viewer's loop is entered
Vis_run ==
    /\ scenario \in {"offline", "online"}
    /\ pc \in {"idle", "stopped"}
    /\ pc' = "viewer"
    /\ result' = "none"
    /\ UNCHANGED colorVars
    /\ UNCHANGED <<scenario, fps, ret, frame, frameId, delivered, nullCalls,
                   trace, drawCalls>>
    /\ UNCHANGED <<capVars, deviceVars, viewerVars>>

\* the loop calls the update function: _update_fun is entered, line 103
Viewer_run_Tick ==
    /\ \/ pc = "viewer"
       \/ pc = "returned" /\ result = "True"
    /\ scenario = "online" => opened < MaxCalls
    /\ pc' = IF scenario = "online" THEN "on_open" ELSE "off_while"
    /\ ret' = TRUE                      \* line 115: success=True
    /\ result' = "none"
    /\ trace' = <<>>
    /\ UNCHANGED colorVars
    /\ UNCHANGED <<scenario, fps, frame, frameId, delivered, nullCalls,
                   drawCalls>>
    /\ UNCHANGED <<capVars, deviceVars, viewerVars>>

\* the update function returned False: the loop ends
Viewer_run_Stop ==
    /\ pc = "returned"
    /\ result = "False"
    /\ pc' = "stopped"
    /\ UNCHANGED colorVars
    /\ UNCHANGED <<scenario, fps, ret, frame, frameId, result, delivered,
                   nullCalls, trace, drawCalls>>
    /\ UNCHANGED <<capVars, deviceVars, viewerVars>>

(***************************************************************************)
(* Visualization._update_fun, online mode, lines 104-113.  The device      *)
(* (camera 0) may or may not deliver a frame; a delivered frame is named   *)
(* by the handle it was read from.                                         *)
(***************************************************************************)
\* line 105: cap = cv2.VideoCapture(0)
Online_Open ==
    /\ pc = "on_open"
    /\ opened' = opened + 1
    /\ openHandles' = openHandles + 1
    /\ trace' = Append(trace, "open")
    /\ pc' = "on_set"
    /\ UNCHANGED colorVars
    /\ UNCHANGED <<scenario, fps, ret, frame, frameId, result, delivered,
                   nullCalls, drawCalls>>
    /\ UNCHANGED <<capVars, viewerVars>>

\* lines 106-107: cap.set(3, 1280); cap.set(4, 800)
Online_Set ==
    /\ pc = "on_set"
    /\ trace' = Append(trace, "set")
    /\ pc' = "on_read"
    /\ UNCHANGED colorVars
    /\ UNCHANGED <<scenario, fps, ret, frame, frameId, result, delivered,
                   nullCalls, drawCalls>>
    /\ UNCHANGED <<capVars, deviceVars, viewerVars>>

\* a slip of line 108: the frame is read from self.cap, not from the handle
\* just opened
Online_Read_FromSelfCap ==
    /\ pc = "on_read"
    /\ CapRead
    /\ trace' = Append(trace, "read")
    /\ pc' = "on_release"
    /\ UNCHANGED colorVars
    /\ UNCHANGED <<scenario, fps, frameId, result, delivered, nullCalls,
                   drawCalls>>
    /\ UNCHANGED <<nframes, deviceVars, viewerVars>>

\* line 108: ret, frame = cap.read()
Online_Read ==
    /\ pc = "on_read"
    /\ \E ok \in BOOLEAN :
          /\ ret' = ok
          /\ frame' = IF ok THEN opened ELSE NoFrame
    /\ trace' = Append(trace, "read")
    /\ pc' = "on_release"
    /\ UNCHANGED colorVars
    /\ UNCHANGED <<scenario, fps, frameId, result, delivered, nullCalls,
                   drawCalls>>
    /\ UNCHANGED <<capVars, deviceVars, viewerVars>>

\* a slip of line 109: the handle is released only after a good read
Online_Release_Leak ==
    /\ pc = "on_release"
    /\ openHandles' = IF ret THEN openHandles - 1 ELSE openHandles
    /\ trace' = Append(trace, "release")
    /\ pc' = "on_check"
    /\ UNCHANGED colorVars
    /\ UNCHANGED <<scenario, fps, ret, frame, frameId, result, delivered,
                   nullCalls, opened, drawCalls>>
    /\ UNCHANGED <<capVars, viewerVars>>

\* line 109: cap.release()
Online_Release ==
    /\ pc = "on_release"
    /\ openHandles' = openHandles - 1
    /\ trace' = Append(trace, "release")
    /\ pc' = "on_check"
    /\ UNCHANGED colorVars
    /\ UNCHANGED <<scenario, fps, ret, frame, frameId, result, delivered,
                   nullCalls, opened, drawCalls>>
    /\ UNCHANGED <<capVars, viewerVars>>

\* lines 110-111: if not ret: return False
Online_ReturnFalse ==
    /\ pc = "on_check"
    /\ ~ret
    /\ result' = "False"
    /\ pc' = "returned"
    /\ UNCHANGED colorVars
    /\ UNCHANGED <<scenario, fps, ret, frame, frameId, delivered, nullCalls,
                   trace, drawCalls>>
    /\ UNCHANGED <<capVars, deviceVars, viewerVars>>

\* a slip of lines 110-112: the callback is invoked without the test of ret
Online_Callback_NoCheck ==
    /\ pc = "on_check"
    /\ InvokeCallback(frame)
    /\ trace' = Append(trace, "callback")
    /\ pc' = "on_callback"
    /\ UNCHANGED colorVars
    /\ UNCHANGED <<scenario, fps, ret, frame, frameId, result, drawCalls>>
    /\ UNCHANGED <<capVars, deviceVars, viewerVars>>

\* line 112: frame_callback(self, frame) is entered
Online_Callback ==
    /\ pc = "on_check"
    /\ ret
    /\ InvokeCallback(frame)
    /\ trace' = Append(trace, "callback")
    /\ pc' = "on_callback"
    /\ UNCHANGED colorVars
    /\ UNCHANGED <<scenario, fps, ret, frame, frameId, result, drawCalls>>
    /\ UNCHANGED <<capVars, deviceVars, viewerVars>>

\* line 113: the callback has returned; return True
Online_ReturnTrue ==
    /\ pc = "on_callback"
    /\ result' = "True"
    /\ pc' = "returned"
    /\ UNCHANGED colorVars
    /\ UNCHANGED <<scenario, fps, ret, frame, frameId, delivered, nullCalls,
                   trace, drawCalls>>
    /\ UNCHANGED <<capVars, deviceVars, viewerVars>>

(***************************************************************************)
(* Visualization._update_fun, offline mode, lines 115-122.                 *)
(***************************************************************************)
\* a slip of line 119: the test is off by one frame
Qualifies_OffByOne(id, rate) == (id + 1) % rate = 0

\* line 119: frameId % self.fps == 0, for fps # 0
Qualifies(id, rate) == id % rate = 0

\* line 116, success true; line 117: frameId = int(round(self.cap.get(1)))
Offline_GetPos ==
    /\ pc = "off_while"
    /\ ret
    /\ frameId' = pos
    /\ capUsed' = TRUE
    /\ trace' = Append(trace, "get")
    /\ pc' = "off_read"
    /\ UNCHANGED colorVars
    /\ UNCHANGED <<scenario, fps, ret, frame, result, delivered, nullCalls,
                   drawCalls>>
    /\ UNCHANGED <<nframes, pos, readLog, deviceVars, viewerVars>>

\* line 118: success, frame = self.cap.read()
Offline_Read ==
    /\ pc = "off_read"
    /\ CapRead
    /\ trace' = Append(trace, "read")
    /\ pc' = "off_check"
    /\ UNCHANGED colorVars
    /\ UNCHANGED <<scenario, nframes, fps, frameId, result, delivered,
                   nullCalls, drawCalls>>
    /\ UNCHANGED <<deviceVars, viewerVars>>

\* a change of line 119: a guard that turns a frame rate of 0 into a stop
Offline_ModuloError_Guarded ==
    /\ pc = "off_check"
    /\ fps = 0
    /\ result' = "False"
    /\ pc' = "returned"
    /\ UNCHANGED colorVars
    /\ UNCHANGED <<scenario, fps, ret, frame, frameId, delivered, nullCalls,
                   trace, drawCalls>>
    /\ UNCHANGED <<capVars, deviceVars, viewerVars>>

\* line 119 with fps = 0: the modulo raises ZeroDivisionError, which nothing
\* catches
Offline_ModuloError ==
    /\ pc = "off_check"
    /\ fps = 0
    /\ pc' = "error"
    /\ UNCHANGED colorVars
    /\ UNCHANGED <<scenario, fps, ret, frame, frameId, result, delivered,
                   nullCalls, trace, drawCalls>>
    /\ UNCHANGED <<capVars, deviceVars, viewerVars>>

\* lines 119-120: the test holds; frame_callback(self, frame) is entered
Offline_Callback ==
    /\ pc = "off_check"
    /\ fps # 0
    /\ Qualifies(frameId, fps)
    /\ InvokeCallback(frame)
    /\ trace' = Append(trace, "callback")
    /\ pc' = "off_callback"
    /\ UNCHANGED colorVars
    /\ UNCHANGED <<scenario, fps, ret, frame, frameId, result, drawCalls>>
    /\ UNCHANGED <<capVars, deviceVars, viewerVars>>

\* line 119: the test fails; back to the while test, line 116
Offline_Skip ==
    /\ pc = "off_check"
    /\ fps # 0
    /\ ~Qualifies(frameId, fps)
    /\ pc' = "off_while"
    /\ UNCHANGED colorVars
    /\ UNCHANGED <<scenario, fps, ret, frame, frameId, result, delivered,
                   nullCalls, trace, drawCalls>>
    /\ UNCHANGED <<capVars, deviceVars, viewerVars>>

\* a slip of line 121: the loop goes on after the callback
Offline_ReturnTrue_Continue ==
    /\ pc = "off_callback"
    /\ pc' = "off_while"
    /\ UNCHANGED colorVars
    /\ UNCHANGED <<scenario, fps, ret, frame, frameId, result, delivered,
                   nullCalls, trace, drawCalls>>
    /\ UNCHANGED <<capVars, deviceVars, viewerVars>>

\* line 121: the callback has returned; return True
Offline_ReturnTrue ==
    /\ pc = "off_callback"
    /\ result' = "True"
    /\ pc' = "returned"
    /\ UNCHANGED colorVars
    /\ UNCHANGED <<scenario, fps, ret, frame, frameId, delivered, nullCalls,
                   trace, drawCalls>>
    /\ UNCHANGED <<capVars, deviceVars, viewerVars>>

\* line 116, success false; line 122: return False
Offline_ReturnFalse ==
    /\ pc = "off_while"
    /\ ~ret
    /\ result' = "False"
    /\ pc' = "returned"
    /\ UNCHANGED colorVars
    /\ UNCHANGED <<scenario, fps, ret, frame, frameId, delivered, nullCalls,
                   trace, drawCalls>>
    /\ UNCHANGED <<capVars, deviceVars, viewerVars>>

(***************************************************************************)
(* Visualization's draw operations, lines 127-149.                         *)
(***************************************************************************)
\* the tracks handed to draw_trackers: is_confirmed(), time_since_update,
\* track_id and to_tlwh()
Tracks ==
    {[track_id |-> i, confirmed |-> c, time_since_update |-> t,
      tlwh |-> BoxOf(i)] : i \in TrackIds, c \in BOOLEAN, t \in {0, 1}}

\* the detections handed to draw_detections
Detections == {[tlwh |-> b] : b \in Boxes}

\* the images handed to set_image
Images == {1, 2}

\* the lists of at most n elements of S
ListsUpTo(S, n) == UNION {[1..k -> S] : k \in 0..n}

\* what the viewer holds for the draw loops: the stroke color and thickness
\* and the rectangles stroked
ViewerState == [color |-> color, thickness |-> thickness, strokes |-> <<>>]

\* self.viewer.color = c
SetColor(st, c) == [st EXCEPT !.color = c]

\* self.viewer.thickness = 2, lines 131, 137 and 143
DrawThickness == 2

SetThickness(st) == [st EXCEPT !.thickness = DrawThickness]

\* self.viewer.rectangle(x, y, w, h, label): the viewer strokes the box with
\* its current color and thickness
Rectangle(st, box, label) ==
    [st EXCEPT !.strokes = Append(@, [box |-> box, label |-> label,
                                      color |-> st.color,
                                      thickness |-> st.thickness])]

\* a slip of line 132: the last pair is left out
Zip_DropLast(a, b) ==
    [k \in 1..(Min(Len(a), Len(b)) - 1) |-> <<a[k], b[k]>>]

\* zip(track_ids, boxes), line 132
Zip(a, b) == [k \in 1..Min(Len(a), Len(b)) |-> <<a[k], b[k]>>]

\* lines 132-134
RECURSIVE draw_groundtruth_loop(_, _)
draw_groundtruth_loop(pairs, st) ==
    IF pairs = <<>> THEN st
    ELSE LET track_id == Head(pairs)[1]
             box == Head(pairs)[2]
             st1 == SetColor(st, create_unique_color_uchar(track_id))
         IN  draw_groundtruth_loop(Tail(pairs),
                                   Rectangle(st1, AsInt(box), Str(track_id)))

\* line 138: the color of every detection
DetectionColor == <<0, 0, 255>>

\* lines 139-140
RECURSIVE draw_detections_loop(_, _)
draw_detections_loop(detections, st) ==
    IF detections = <<>> THEN st
    ELSE draw_detections_loop(Tail(detections),
                              Rectangle(st, Head(detections).tlwh, NoLabel))

\* a slip of line 145: the test of time_since_update is left out
SkipTrack_ConfirmedOnly(track) == ~track.confirmed

\* line 145: not track.is_confirmed() or track.time_since_update > 0
SkipTrack(track) == ~track.confirmed \/ track.time_since_update > 0

\* lines 144-149
RECURSIVE draw_trackers_loop(_, _)
draw_trackers_loop(tracks, st) ==
    IF tracks = <<>> THEN st
    ELSE LET track == Head(tracks)
         IN  IF SkipTrack(track)
             THEN draw_trackers_loop(Tail(tracks), st)
             ELSE LET st1 == SetColor(st,
                                 create_unique_color_uchar(track.track_id))
                  IN  draw_trackers_loop(Tail(tracks),
                          Rectangle(st1, AsInt(track.tlwh),
                                    Str(track.track_id)))

\* the viewer takes the state a draw operation leaves
Drawn(op, args, st) ==
    /\ scenario = "drawing"
    /\ color' = st.color
    /\ thickness' = st.thickness
    /\ strokes' = st.strokes
    /\ lastOp' = op
    /\ lastArgs' = args
    /\ UNCHANGED colorVars
    /\ UNCHANGED <<scenario, fps, drawCalls, image>>
    /\ UNCHANGED <<capVars, loopVars, deviceVars>>

\* lines 127-128
Vis_set_image ==
    /\ scenario = "drawing"
    /\ \E img \in Images :
          /\ image' = img
          /\ lastOp' = "set_image"
          /\ lastArgs' = <<img>>
    /\ strokes' = <<>>
    /\ UNCHANGED colorVars
    /\ UNCHANGED <<scenario, fps, drawCalls, color, thickness>>
    /\ UNCHANGED <<capVars, loopVars, deviceVars>>

\* lines 130-134
Vis_draw_groundtruth ==
    \E track_ids \in ListsUpTo(TrackIds, MaxTracks),
       boxes \in ListsUpTo(Boxes, MaxTracks) :
        Drawn("draw_groundtruth", <<track_ids, boxes>>,
              draw_groundtruth_loop(Zip(track_ids, boxes),
                                    SetThickness(ViewerState)))

\* a slip of line 138: the color is not set, the viewer's last color is used
Vis_draw_detections_StaleColor ==
    \E detections \in ListsUpTo(Detections, MaxTracks) :
        Drawn("draw_detections", <<detections>>,
              draw_detections_loop(detections, SetThickness(ViewerState)))

\* lines 136-140
Vis_draw_detections ==
    \E detections \in ListsUpTo(Detections, MaxTracks) :
        Drawn("draw_detections", <<detections>>,
              draw_detections_loop(detections,
                  SetColor(SetThickness(ViewerState), DetectionColor)))

\* lines 142-149
Vis_draw_trackers ==
    \E tracks \in ListsUpTo(Tracks, MaxTracks) :
        Drawn("draw_trackers", <<tracks>>,
              draw_trackers_loop(tracks, SetThickness(ViewerState)))

(***************************************************************************)
(* Calls of the color functions, lines 7-53, with the tag Init picked.     *)
(***************************************************************************)
\* create_unique_color_float(tag) is called
Color_float ==
    /\ scenario = "coloring"
    /\ hsv' = HsvOf(tag)
    /\ rgb' = create_unique_color_float(tag)
    /\ UNCHANGED <<scenario, fps, drawCalls, tag, rgb8>>
    /\ UNCHANGED <<capVars, loopVars, deviceVars, viewerVars>>

\* create_unique_color_uchar(tag) is called; line 52 calls
\* create_unique_color_float
Color_uchar ==
    /\ scenario = "coloring"
    /\ hsv' = HsvOf(tag)
    /\ rgb' = create_unique_color_float(tag)
    /\ rgb8' = create_unique_color_uchar(tag)
    /\ UNCHANGED <<scenario, fps, drawCalls, tag>>
    /\ UNCHANGED <<capVars, loopVars, deviceVars, viewerVars>>

\* no object is constructed; the tag is any of 0 .. MaxTag
ColorInit ==
    /\ scenario = "coloring"
    /\ tag \in 0..MaxTag
    /\ hsv = <<>>
    /\ rgb = <<>>
    /\ rgb8 = <<>>
    /\ nframes = 0
    /\ fps = 1
    /\ pos = 0
    /\ pc = "idle"
    /\ ret = TRUE
    /\ frame = NoFrame
    /\ frameId = 0
    /\ result = "none"
    /\ delivered = <<>>
    /\ nullCalls = 0
    /\ readLog = <<>>
    /\ trace = <<>>
    /\ opened = 0
    /\ openHandles = 0
    /\ drawCalls = 0
    /\ color = <<0, 0, 0>>
    /\ thickness = 2
    /\ image = 0
    /\ lastOp = "none"
    /\ lastArgs = <<>>
    /\ strokes = <<>>
    /\ capUsed = FALSE

ColorNext ==
    \/ Color_float
    \/ Color_uchar

ColorSpec == ColorInit /\ [][ColorNext]_vars

(***************************************************************************)
(* The specifications of the controllers.                                  *)
(***************************************************************************)
Next ==
    \/ NoVis_run_Enter
    \/ NoVis_run_Read
    \/ NoVis_run_Return
    \/ NoVis_run_Callback
    \/ NoVis_run_Loop
    \/ NoVis_set_image
    \/ NoVis_draw_groundtruth
    \/ NoVis_draw_detections
    \/ NoVis_draw_trackers
    \/ Vis_run
    \/ Viewer_run_Tick
    \/ Viewer_run_Stop
    \/ Online_Open
    \/ Online_Set
    \/ Online_Read
    \/ Online_Release
    \/ Online_ReturnFalse
    \/ Online_Callback
    \/ Online_ReturnTrue
    \/ Offline_GetPos
    \/ Offline_Read
    \/ Offline_ModuloError
    \/ Offline_Callback
    \/ Offline_Skip
    \/ Offline_ReturnTrue
    \/ Offline_ReturnFalse
    \/ Vis_set_image
    \/ Vis_draw_groundtruth
    \/ Vis_draw_detections
    \/ Vis_draw_trackers

Spec == Init /\ [][Next]_vars

\* the steps the program takes by itself once run has been called: it is
\* single-threaded, the callback returns, and every step of run, of
\* _update_fun and of the viewer's loop is taken once it is reached.  Calling
\* run and calling a draw operation are the caller's choice.
Step ==
    \/ NoVis_run_Read
    \/ NoVis_run_Return
    \/ NoVis_run_Callback
    \/ NoVis_run_Loop
    \/ Viewer_run_Tick
    \/ Viewer_run_Stop
    \/ Online_Open
    \/ Online_Set
    \/ Online_Read
    \/ Online_Release
    \/ Online_ReturnFalse
    \/ Online_Callback
    \/ Online_ReturnTrue
    \/ Offline_GetPos
    \/ Offline_Read
    \/ Offline_ModuloError
    \/ Offline_Callback
    \/ Offline_Skip
    \/ Offline_ReturnTrue
    \/ Offline_ReturnFalse

FairSpec == Init /\ [][Next]_vars /\ WF_vars(Step)

(***************************************************************************)
(* Helpers of the properties.                                              *)
(***************************************************************************)
\* the frames 0 .. n-1 in source order
FirstFrames(n) == [i \in 1..n |-> i - 1]

IsPrefix(a, b) == Len(a) <= Len(b) /\ \A i \in 1..Len(a) : a[i] = b[i]

\* the steps of one online _update_fun call that delivers a frame
OnlineSteps == <<"open", "set", "read", "release", "callback">>

\* the number a string of decimal digits denotes
DigitValue(c) == CHOOSE d \in 0..9 : Digit(d) = c

RECURSIVE DecimalValue(_)
DecimalValue(str) ==
    IF str = <<>> THEN 0
    ELSE 10 * DecimalValue(SubSeq(str, 1, Len(str) - 1))
         + DigitValue(str[Len(str)])

\* the source frames read so far whose callback test has been decided
DecidedReads ==
    IF pc \in {"off_check", "error"} /\ ret
    THEN SubSeq(readLog, 1, Len(readLog) - 1)
    ELSE readLog

(***************************************************************************)
(* The properties.                                                         *)
(***************************************************************************)
\* C1: NoVisualization.run over a source whose reads succeed for frames
\* 0..k-1 and fail at read k invokes the callback with the frames 0, 1, ...,
\* k-1 in source order, each exactly once, never with the frame of the failed
\* read, and then returns False.
C1_HeadlessDeliversInOrder ==
    scenario = "headless" =>
        /\ nullCalls = 0
        /\ IsPrefix(delivered, FirstFrames(nframes))
        /\ pc = "done" =>
              /\ delivered = FirstFrames(nframes)
              /\ result = "False"

\* C1 happens: a source failing at read 3 has delivered frames 0, 1, 2 and
\* run has returned
C1_Witness ==
    /\ scenario = "headless"
    /\ pc = "done"
    /\ nframes = 3
    /\ delivered = <<0, 1, 2>>
    /\ result = "False"

\* C2: NoVisualization.run terminates exactly when a read reports failure:
\* once called it eventually returns, its result is False, it has returned
\* only after a failed read, and while the last read succeeded it has not
\* returned.
C2_HeadlessTerminates ==
    /\ [](scenario = "headless" /\ pc = "done" => ~ret /\ result = "False")
    /\ [](scenario = "headless" /\ pc \in {"h_check", "h_callback"} /\ ret
              => result = "none")
    /\ (scenario = "headless" /\ pc = "h_read")
           ~> (pc = "done" /\ result = "False")

\* C2 happens: run has returned after the failed read that follows the
\* source's last frame
C2_Witness ==
    /\ scenario = "headless"
    /\ pc = "done"
    /\ nframes = MaxFrames
    /\ Len(readLog) = MaxFrames
    /\ ~ret

\* C3: in offline mode with a frame rate F >= 1 the callback is only ever
\* invoked for frames whose index (the position read just before the frame
\* is read) is a multiple of F.
C3_OfflineOnlyMultiples ==
    scenario = "offline" /\ fps >= 1 =>
        /\ \A i \in 1..Len(delivered) : delivered[i] % fps = 0
        /\ pc = "off_callback" => frameId % fps = 0

\* C3 happens: with F = 2, frames 1 and 3 were read and not forwarded
C3_Witness ==
    /\ scenario = "offline"
    /\ fps = 2
    /\ readLog = <<0, 1, 2, 3>>
    /\ delivered = <<0, 2>>

\* C4: in offline mode with F >= 1 each _update_fun call forwards at most
\* one frame and returns True right after the callback without a further
\* read; over the calls every frame read with an index that is a multiple of
\* F is delivered exactly once, in increasing order, and every source frame
\* is read at most once.
C4_OfflineOnePerCall ==
    scenario = "offline" /\ fps >= 1 =>
        /\ \A i \in 1..Len(trace) : trace[i] = "callback" => i = Len(trace)
        /\ pc = "returned" /\ result = "True" =>
              /\ trace # <<>>
              /\ trace[Len(trace)] = "callback"
        /\ readLog = FirstFrames(Len(readLog))
        /\ delivered = SelectSeq(DecidedReads, LAMBDA f : f % fps = 0)

\* C4 happens: the second call skipped frame 1, delivered frame 2 and
\* returned True
C4_Witness ==
    /\ scenario = "offline"
    /\ fps = 2
    /\ pc = "returned"
    /\ result = "True"
    /\ trace = <<"get", "read", "get", "read", "callback">>
    /\ delivered = <<0, 2>>

\* C5: a failed read always terminates the run loop: in every controller and
\* mode, the call in which a read reports failure returns False.
C5_FailedReadReturnsFalse ==
    pc \in {"done", "returned"} /\ ~ret => result = "False"

\* C6: the interactive offline loop terminates when the source is exhausted:
\* for every finite source and every F >= 1, a viewer that calls _update_fun
\* until it returns False eventually receives False.
C6_OfflineLoopTerminates ==
    (scenario = "offline" /\ fps >= 1 /\ pc = "viewer") ~> (pc = "stopped")

\* C7: in online mode every _update_fun call opens a fresh handle,
\* configures it, reads one frame and releases the handle, in this order;
\* then it returns False without the callback if the read failed, and
\* otherwise invokes the callback once with that frame and returns True.
C7_OnlineStepOrder ==
    scenario = "online" =>
        /\ IsPrefix(trace, OnlineSteps)
        /\ pc = "on_set" => openHandles = 1 /\ trace = <<"open">>
        /\ pc = "on_callback" =>
              /\ ret
              /\ delivered # <<>>
              /\ delivered[Len(delivered)] = frame
              /\ frame = opened
        /\ pc = "returned" =>
              /\ result = (IF ret THEN "True" ELSE "False")
              /\ trace = IF result = "True" THEN OnlineSteps
                         ELSE SubSeq(OnlineSteps, 1, 4)
        /\ Len(delivered) <= opened
        /\ nullCalls = 0

\* C7 happens: a call whose read failed has returned False after a call
\* that delivered a frame
C7_Witness ==
    /\ scenario = "online"
    /\ pc = "returned"
    /\ result = "False"
    /\ trace = <<"open", "set", "read", "release">>
    /\ delivered = <<1>>
    /\ opened = 2

\* C8: the online handle is released on every exit path: no handle opened by
\* _update_fun is open when a call has returned, at most one is open at any
\* moment, and the handle is released when the callback is invoked.
C8_OnlineHandleReleased ==
    scenario = "online" =>
        /\ openHandles \in {0, 1}
        /\ pc \in {"returned", "stopped", "viewer", "on_callback"}
              => openHandles = 0

\* C8 happens: a failed read's call has returned, after a good one, with no
\* handle left open
C8_Witness ==
    /\ scenario = "online"
    /\ pc = "stopped"
    /\ opened = 2
    /\ Len(delivered) = 1
    /\ ~ret
    /\ openHandles = 0

\* the tracks of a list that are confirmed and have time_since_update = 0
Rendered(tracks) ==
    SelectSeq(tracks, LAMBDA t : t.confirmed /\ t.time_since_update = 0)

\* C9: draw_trackers strokes exactly the tracks that are confirmed and have
\* time_since_update = 0, in input order, each with the color
\* create_unique_color_uchar(track_id) and the decimal string of track_id as
\* its label; no other track is rendered.
C9_DrawTrackersFilters ==
    scenario = "drawing" /\ lastOp = "draw_trackers" =>
        LET shown == Rendered(lastArgs[1])
        IN  /\ Len(strokes) = Len(shown)
            /\ \A i \in 1..Len(shown) :
                  /\ strokes[i].color
                       = create_unique_color_uchar(shown[i].track_id)
                  /\ DecimalValue(strokes[i].label) = shown[i].track_id
                  /\ strokes[i].box = AsInt(shown[i].tlwh)

\* C9 happens: of a stale confirmed track and a fresh confirmed one, only
\* the second was stroked
C9_Witness ==
    /\ scenario = "drawing"
    /\ lastOp = "draw_trackers"
    /\ Len(lastArgs[1]) = 2
    /\ lastArgs[1][1].confirmed
    /\ lastArgs[1][1].time_since_update = 1
    /\ lastArgs[1][2].confirmed
    /\ lastArgs[1][2].time_since_update = 0
    /\ lastArgs[1][2].track_id = 12
    /\ Len(strokes) = 1
    /\ strokes[1].label = <<"1", "2">>

\* C10: every draw operation of NoVisualization is a no-op: whenever one is
\* called it leaves the controller's state and the source's position
\* unchanged and reads nothing, so run delivers the same frames as without
\* the draw calls.
C10_NoVisDrawsAreNoOps ==
    /\ [][drawCalls' # drawCalls =>
             UNCHANGED <<nframes, pos, readLog, pc, ret, frame, result,
                         delivered, nullCalls>>]_vars
    /\ [](scenario = "headless" /\ pc = "done" =>
             /\ readLog = FirstFrames(nframes)
             /\ delivered = readLog)

\* C10 happens: draw operations were called and run is inside the callback
\* of its second frame
C10_Witness ==
    /\ scenario = "headless"
    /\ pc = "h_callback"
    /\ drawCalls = MaxDraws
    /\ delivered = <<0, 1>>
    /\ pos = 2

\* the distance of two hues on the hue wheel, in hundredths
WheelDist(h1, h2) ==
    LET d == IF h1 >= h2 THEN h1 - h2 ELSE h2 - h1
    IN  Min(d, HueDen - d)

Abs(x) == IF x >= 0 THEN x ELSE -x

C12_NearbyIdsDiffer ==
    scenario = "coloring" /\ rgb # <<>> =>
        \A b \in 0..MaxTag :
            0 < Abs(tag - b) /\ Abs(tag - b) < 100 =>
                /\ Hue(b) # hsv[1]
                /\ create_unique_color_float(b) # rgb

\* C12 happens: the color of tag 150 is computed; tags 51 .. 249 are in reach
C12_Witness ==
    /\ scenario = "coloring"
    /\ tag = 150
    /\ hsv = <<50, 1, 4>>
    /\ rgb # <<>>
    /\ rgb8 = <<>>

\* C13 as stated: for identities 0, 1 and 2 each of the three pairwise hue
\* distances on the hue wheel is at least 0.3.
C13_HueDistancesOf012 ==
    scenario = "coloring" /\ tag \in 0..2 /\ hsv # <<>> =>
        \A b \in 0..2 : b # tag => WheelDist(hsv[1], Hue(b)) >= 30

\* C13 amended: for identities 0, 1 and 2 the hue distance of neighbouring
\* identities (0 and 1, 1 and 2) is 0.41, which is at least 0.3; the distance
\* of 0 and 2 is 0.18.
C13_NeighbourHueDistances ==
    scenario = "coloring" /\ tag \in 0..2 /\ hsv # <<>> =>
        \A b \in 0..2 :
            /\ Abs(b - tag) = 1 =>
                  /\ WheelDist(hsv[1], Hue(b)) = 41
                  /\ WheelDist(hsv[1], Hue(b)) >= 30
            /\ Abs(b - tag) = 2 => WheelDist(hsv[1], Hue(b)) = 18

\* C13 happens: the hue of identity 2 is computed: 0.82
C13_Witness ==
    /\ scenario = "coloring"
    /\ tag = 2
    /\ hsv = <<82, 1, 5>>

\* C14: create_unique_color_uchar truncates and never rounds: each channel is
\* floor(255 * c) for the channel c of create_unique_color_float(tag), lies
\* in 0..255 and is 255 only when c is exactly 1.
C14_UcharTruncates ==
    scenario = "coloring" /\ rgb8 # <<>> =>
        \A k \in 1..3 :
            /\ rgb8[k] \in 0..255
            /\ rgb8[k] * 500 <= 255 * rgb[k]
            /\ 255 * rgb[k] < (rgb8[k] + 1) * 500
            /\ rgb8[k] = 255 => rgb[k] = 500

\* C14 happens: tag 1 has the channel 0.54, and 255 * 0.54 = 137.7 became 137
C14_Witness ==
    /\ scenario = "coloring"
    /\ tag = 1
    /\ rgb = <<0, 500, 230>>
    /\ rgb8 = <<0, 255, 117>>

IsTruncationOf(c, x) ==
    /\ c % 10 = 0
    /\ Abs(c) <= Abs(x)
    /\ Abs(x) - Abs(c) < 10
    /\ (x >= 10 => c > 0) /\ (x <= -10 => c < 0)

\* C16: after any sequence of Visualization draw operations every rectangle
\* is stroked with thickness 2 and with the color of its own operation: the
\* fixed color (0, 0, 255) and no label for every detection,
\* create_unique_color_uchar(id) for every ground-truth box and every
\* rendered track; no color or label of an earlier call is used.
C16_StrokeColorOfOwnOperation ==
    scenario = "drawing" =>
        /\ \A i \in 1..Len(strokes) : strokes[i].thickness = 2
        /\ lastOp = "draw_detections" =>
              /\ Len(strokes) = Len(lastArgs[1])
              /\ \A i \in 1..Len(strokes) :
                    /\ strokes[i].color = <<0, 0, 255>>
                    /\ strokes[i].label = <<>>
        /\ lastOp \in {"draw_groundtruth", "draw_trackers"} =>
              \A i \in 1..Len(strokes) :
                  /\ strokes[i].label # <<>>
                  /\ strokes[i].color =
                        create_unique_color_uchar(
                            DecimalValue(strokes[i].label))
        /\ lastOp = "draw_groundtruth" =>
              \A i \in 1..Len(strokes) :
                  DecimalValue(strokes[i].label) = lastArgs[1][i]
        /\ lastOp = "draw_trackers" =>
              \A i \in 1..Len(strokes) :
                  \E k \in 1..Len(lastArgs[1]) :
                      /\ lastArgs[1][k].track_id
                            = DecimalValue(strokes[i].label)
                      /\ lastArgs[1][k].confirmed

\* C16 happens: after an image was set (an earlier call), two ground-truth
\* boxes of different ids were stroked, each in the color of its own id
C16_Witness ==
    /\ scenario = "drawing"
    /\ image # 0
    /\ lastOp = "draw_groundtruth"
    /\ lastArgs[1] = <<1, 12>>
    /\ Len(strokes) = 2
    /\ strokes[1].color # strokes[2].color
    /\ color = strokes[2].color

\* C17: draw_groundtruth(ids, boxes) strokes one rectangle per (id, box)
\* pair, in order: the i-th uses box i (cut to whole pixels), the color
\* create_unique_color_uchar(ids[i]) and the label str(ids[i]); exactly
\* min(len(ids), len(boxes)) rectangles are drawn, the surplus is dropped.
C17_GroundtruthPairs ==
    scenario = "drawing" /\ lastOp = "draw_groundtruth" =>
        LET ids == lastArgs[1]
            boxes == lastArgs[2]
        IN  /\ Len(strokes) <= Len(ids)
            /\ Len(strokes) <= Len(boxes)
            /\ Len(strokes) = Len(ids) \/ Len(strokes) = Len(boxes)
            /\ \A i \in 1..Len(strokes) :
                  /\ strokes[i].color = create_unique_color_uchar(ids[i])
                  /\ DecimalValue(strokes[i].label) = ids[i]
                  /\ Len(strokes[i].label) = IF ids[i] < 10 THEN 1 ELSE 2
                  /\ \A k \in 1..4 :
                        IsTruncationOf(strokes[i].box[k], boxes[i][k])

\* C17 happens: two ids and one box gave one rectangle
C17_Witness ==
    /\ scenario = "drawing"
    /\ lastOp = "draw_groundtruth"
    /\ lastArgs[1] = <<12, 1>>
    /\ Len(lastArgs[2]) = 1
    /\ Len(strokes) = 1
    /\ strokes[1].label = <<"1", "2">>

C19_CallbackOnlyAfterGoodRead ==
    /\ nullCalls = 0
    /\ pc \in {"h_callback", "on_callback", "off_callback"} =>
          ret /\ frame # NoFrame

\* C20: in online mode the capture source passed to the constructor is never
\* used: no method of it is called, its position never moves, and every
\* delivered frame comes from the handle _update_fun opened in that call.
C20_OnlineIgnoresConstructorCap ==
    scenario = "online" =>
        /\ ~capUsed
        /\ pos = 0
        /\ readLog = <<>>
        /\ \A i \in 1..Len(delivered) :
              /\ delivered[i] \in 1..opened
              /\ \A j \in 1..Len(delivered) :
                    i < j => delivered[i] < delivered[j]
        /\ pc = "on_callback" => delivered[Len(delivered)] = opened

\* C20 happens: two calls have each delivered the frame of their own handle
C20_Witness ==
    /\ scenario = "online"
    /\ pc = "returned"
    /\ delivered = <<1, 2>>
    /\ opened = 2
    /\ nframes > 0
    /\ ~capUsed

==========================================================================
